---- MODULE Spec2Model ----
(***************************************************************************)
(* A model of oxli's KmerCountTable (src/lib.rs): the hash -> count table, *)
(* its optional hash -> canonical k-mer side table, the sequence           *)
(* extractor KmersAndHashesIter and the parallel merge `add`.              *)
(*                                                                         *)
(* Strings are sequences of one-character strings.  A map (HashMap) is a   *)
(* function whose domain is its key set.  Every method of the table is an  *)
(* operator from the table (and its arguments) to the table afterwards     *)
(* with the call's outcome; the actions apply these operators to the       *)
(* tables of the state.                                                    *)
(***************************************************************************)
EXTENDS Integers, Sequences, FiniteSets, TLC

VARIABLES
    tables,     \* table id -> KmerCountTable (the struct's fields)
    ret,        \* the last completed call: its name, arguments and outcome
    addst,      \* the frame of an `add` call in flight (pc = "idle": none)
    workers,    \* rayon worker -> its position in the for_each closure
    mutex       \* holder of the Mutex of add (0: free)

vars == <<tables, ret, addst, workers, mutex>>

---------------------------------------------------------------------------
(* Bounds of the model. *)

\* counts are explored up to this value
MaxCount == 2
\* counting operations are explored while consumed is below this value
MaxConsumed == 4
\* generated sequences have at most this many characters
MaxSeqLen == 3
\* size of the rayon pool that runs add's closures
NWorkers == 2

\* u8 holds values modulo this (ksize: u8, `kmer.len() as u8`)
U8Mod == 256

Tables == {1, 2}
KSizes == {1, 2}

---------------------------------------------------------------------------
(* Maps. *)

EmptyMap == << >>

Put(m, k, v) == [x \in (DOMAIN m) \cup {k} |-> IF x = k THEN v ELSE m[x]]

Remove(m, ks) == [x \in (DOMAIN m) \ ks |-> m[x]]

\* HashMap::get(..).unwrap_or(&0)
GetOr0(m, k) == IF k \in DOMAIN m THEN m[k] ELSE 0

RECURSIVE SumOver(_, _)
SumOver(m, ks) ==
    IF ks = {} THEN 0
    ELSE LET k == CHOOSE x \in ks : TRUE
         IN  m[k] + SumOver(m, ks \ {k})

\* counts.values().sum()
sum_counts(m) == SumOver(m, DOMAIN m)

---------------------------------------------------------------------------
(* Bytes and strings. *)

\* the byte value of a character (str comparison is bytewise)
Ord(c) ==
    CASE c = "A" -> 65 [] c = "C" -> 67 [] c = "G" -> 71 [] c = "N" -> 78
      [] c = "T" -> 84 [] c = "a" -> 97 [] c = "c" -> 99 [] c = "g" -> 103
      [] c = "n" -> 110 [] c = "t" -> 116 [] OTHER -> 0

\* to_uppercase / to_ascii_uppercase of one character
UpperChar(c) ==
    CASE c = "a" -> "A" [] c = "c" -> "C" [] c = "g" -> "G" [] c = "n" -> "N"
      [] c = "t" -> "T" [] OTHER -> c

to_uppercase(s) == [i \in 1..Len(s) |-> UpperChar(s[i])]

\* s < t for str: lexicographic on bytes, a proper prefix is smaller
RECURSIVE StrLess(_, _)
StrLess(s, t) ==
    IF t = << >> THEN FALSE
    ELSE IF s = << >> THEN TRUE
    ELSE IF Ord(Head(s)) # Ord(Head(t)) THEN Ord(Head(s)) < Ord(Head(t))
    ELSE StrLess(Tail(s), Tail(t))

StrLeq(s, t) == s = t \/ StrLess(s, t)

\* `kmer.len() as u8`
AsU8(n) == n % U8Mod

---------------------------------------------------------------------------
(* The hash encoder (sourmash SeqToHashes with Murmur64Dna, seed 42), at   *)
(* its boundary: one result per sliding window, over the uppercased        *)
(* sequence.  A window with a character outside A, C, G, T is Ok(0) when   *)
(* force is set and an error otherwise; any other window is the hash of    *)
(* the smaller of the window and its reverse complement.                   *)

DnaValid == {"A", "C", "G", "T"}

\* sourmash's COMPLEMENT table: N maps to N, any other byte to NUL
Complement(c) ==
    CASE c = "A" -> "T" [] c = "T" -> "A" [] c = "C" -> "G" [] c = "G" -> "C"
      [] c = "N" -> "N" [] OTHER -> "0"

revcomp(s) == [i \in 1..Len(s) |-> Complement(s[Len(s) + 1 - i])]

Digit(c) == CASE c = "A" -> 0 [] c = "C" -> 1 [] c = "G" -> 2 [] OTHER -> 3

RECURSIVE DigitSum(_)
DigitSum(s) == IF s = << >> THEN 0 ELSE Digit(Head(s)) + DigitSum(Tail(s))

\* the 64-bit hash of a valid k-mer text: a non-zero code.  A 64-bit hash
\* cannot tell all k-mers apart (for ksize >= 33 there are more canonical
\* k-mers than hash values); this code keeps that: texts of one length
\* with the same bases in another order share a hash, "AT" and "TA" among
\* them.
HashMurmur(s) == 4 ^ Len(s) + DigitSum(s)

\* number of results the encoder yields
NumHashes(len, k) == IF len >= k THEN len - k + 1 ELSE 0

\* the i-th result (1-based) of SeqToHashes::new(seq, k, force, ..)
SeqToHashesAt(seq, k, force, i) ==
    LET kmer == to_uppercase(SubSeq(seq, i, i + k - 1))
        krc  == revcomp(kmer)
    IN  IF \E j \in 1..k : kmer[j] \notin DnaValid
        THEN IF force THEN [ok |-> TRUE, h |-> 0] ELSE [ok |-> FALSE, h |-> 0]
        ELSE [ok |-> TRUE,
              h  |-> HashMurmur(IF StrLess(krc, kmer) THEN krc ELSE kmer)]

---------------------------------------------------------------------------
(* KmerCountTable: construction and the single-table methods.  A call's    *)
(* outcome is [tb, status, val]: the table afterwards, "ok" / "err" (the   *)
(* method returned Err) / "panic" (it aborted), and the value returned.    *)

\* KmerCountTable::new; hash_to_kmer = None is the empty map with
\* store_kmers = FALSE (every access to it is behind that flag)
new(ksize, store_kmers) ==
    [ksize |-> ksize, store_kmers |-> store_kmers, counts |-> EmptyMap,
     consumed |-> 0, hash_to_kmer |-> EmptyMap]

Outcome(tb, status, val) == [tb |-> tb, status |-> status, val |-> val]

\* hash_kmer: the length test compares `kmer.len() as u8` with ksize
hash_kmer(tb, kmer) ==
    IF AsU8(Len(kmer)) # tb.ksize
    THEN [status |-> "err", h |-> 0]
    ELSE IF NumHashes(Len(kmer), tb.ksize) = 0
    THEN [status |-> "panic", h |-> 0]
    ELSE LET hashval == SeqToHashesAt(kmer, tb.ksize, FALSE, 1)
         IN  IF hashval.ok THEN [status |-> "ok", h |-> hashval.h]
             ELSE [status |-> "err", h |-> 0]

\* count_hash: counts.entry(hashval).or_insert(0) += 1
count_hash(tb, hashval) ==
    LET count == GetOr0(tb.counts, hashval) + 1
    IN  Outcome([tb EXCEPT !.counts = Put(@, hashval, count)], "ok", count)

\* canon: the length test compares kmer.len() with ksize as usize
canon(tb, kmer) ==
    LET kmer_upper == to_uppercase(kmer)
        rev_comp   == [i \in 1..Len(kmer_upper) |->
                          LET c == kmer_upper[Len(kmer_upper) + 1 - i]
                          IN  CASE c = "A" -> "T" [] c = "T" -> "A"
                                [] c = "C" -> "G" [] c = "G" -> "C"
                                [] OTHER -> c]
    IN  IF Len(kmer) # tb.ksize THEN [status |-> "err", kmer |-> << >>]
        ELSE IF \E i \in 1..Len(kmer_upper) : kmer_upper[i] \notin DnaValid
        THEN [status |-> "err", kmer |-> << >>]
        ELSE IF StrLeq(kmer_upper, rev_comp)
        THEN [status |-> "ok", kmer |-> kmer_upper]
        ELSE [status |-> "ok", kmer |-> rev_comp]

\* count without `self.consumed += kmer.len() as u64`
count_untallied(tb, kmer) ==
    IF AsU8(Len(kmer)) # tb.ksize THEN Outcome(tb, "err", 0)
    ELSE LET hk == hash_kmer(tb, kmer)
         IN  IF hk.status # "ok" THEN Outcome(tb, hk.status, 0)
             ELSE LET c  == count_hash(tb, hk.h)
                      ck == canon(tb, kmer)
                  IN  IF ~tb.store_kmers THEN Outcome(c.tb, "ok", c.val)
                      ELSE IF ck.status # "ok" THEN Outcome(c.tb, "err", 0)
                      ELSE Outcome([c.tb EXCEPT !.hash_to_kmer =
                                        Put(@, hk.h, ck.kmer)], "ok", c.val)

\* count
count(tb, kmer) ==
    IF AsU8(Len(kmer)) # tb.ksize THEN Outcome(tb, "err", 0)
    ELSE LET hk == hash_kmer(tb, kmer)
         IN  IF hk.status # "ok" THEN Outcome(tb, hk.status, 0)
             ELSE LET c   == count_hash(tb, hk.h)
                      tb2 == [c.tb EXCEPT !.consumed = @ + Len(kmer)]
                      ck  == canon(tb, kmer)
                  IN  IF ~tb.store_kmers THEN Outcome(tb2, "ok", c.val)
                      ELSE IF ck.status # "ok" THEN Outcome(tb2, "err", 0)
                      ELSE Outcome([tb2 EXCEPT !.hash_to_kmer =
                                        Put(@, hk.h, ck.kmer)], "ok", c.val)

\* get: hash_kmer(kmer).expect(..) aborts when the encoder rejects the k-mer
get(tb, kmer) ==
    IF AsU8(Len(kmer)) # tb.ksize THEN Outcome(tb, "err", 0)
    ELSE LET hk == hash_kmer(tb, kmer)
         IN  IF hk.status # "ok" THEN Outcome(tb, "panic", 0)
             ELSE Outcome(tb, "ok", GetOr0(tb.counts, hk.h))

\* get_hash
get_hash(tb, hashval) == GetOr0(tb.counts, hashval)

\* drop
drop(tb, kmer) ==
    LET hk == hash_kmer(tb, kmer)
    IN  IF hk.status # "ok" THEN Outcome(tb, hk.status, 0)
        ELSE Outcome([tb EXCEPT !.counts = Remove(@, {hk.h})], "ok", 0)

\* drop_hash
drop_hash(tb, hashval) ==
    Outcome([tb EXCEPT !.counts = Remove(@, {hashval})], "ok", 0)

\* mincut with the comparison `<=` in place of `<`
mincut_le(tb, min_count) ==
    LET to_remove == {h \in DOMAIN tb.counts : tb.counts[h] <= min_count}
    IN  Outcome([tb EXCEPT !.counts = Remove(@, to_remove)], "ok",
                Cardinality(to_remove))

\* mincut: collect the keys with count < min_count, then remove them
mincut(tb, min_count) ==
    LET to_remove == {h \in DOMAIN tb.counts : tb.counts[h] < min_count}
    IN  Outcome([tb EXCEPT !.counts = Remove(@, to_remove)], "ok",
                Cardinality(to_remove))

\* maxcut: collect the keys with count > max_count, then remove them
maxcut(tb, max_count) ==
    LET to_remove == {h \in DOMAIN tb.counts : tb.counts[h] > max_count}
    IN  Outcome([tb EXCEPT !.counts = Remove(@, to_remove)], "ok",
                Cardinality(to_remove))

\* __setitem__: counts.insert(hashval, count)
setitem(tb, kmer, cnt) ==
    LET hk == hash_kmer(tb, kmer)
    IN  IF hk.status # "ok" THEN Outcome(tb, hk.status, 0)
        ELSE Outcome([tb EXCEPT !.counts = Put(@, hk.h, cnt)], "ok", 0)

\* min / max getters
min(tb) ==
    IF DOMAIN tb.counts = {} THEN 0
    ELSE CHOOSE c \in {tb.counts[h] : h \in DOMAIN tb.counts} :
             \A h \in DOMAIN tb.counts : c <= tb.counts[h]

max(tb) ==
    IF DOMAIN tb.counts = {} THEN 0
    ELSE CHOOSE c \in {tb.counts[h] : h \in DOMAIN tb.counts} :
             \A h \in DOMAIN tb.counts : c >= tb.counts[h]

\* sort_by_key on the distinct keys of a map: the keys in ascending order
RECURSIVE SortAsc(_)
SortAsc(keys) ==
    IF keys = {} THEN << >>
    ELSE LET least == CHOOSE k \in keys : \A x \in keys : k <= x
         IN  <<least>> \o SortAsc(keys \ {least})

\* freq_count: the number of hashes holding each observed count
freq_count(tb) ==
    [c \in {tb.counts[h] : h \in DOMAIN tb.counts} |->
        Cardinality({h \in DOMAIN tb.counts : tb.counts[h] = c})]

\* histo with the range `1..=max_count` in place of `0..=max_count`
histo_from_one(tb, zero) ==
    IF zero
    THEN [i \in 1..max(tb) |-> <<i, GetOr0(freq_count(tb), i)>>]
    ELSE LET sorted == SortAsc(DOMAIN freq_count(tb))
         IN  [i \in 1..Len(sorted) |-> <<sorted[i], freq_count(tb)[sorted[i]]>>]

\* histo: the pairs (frequency, tally); with zero, one for every frequency
\* of 0..=max()
histo(tb, zero) ==
    IF zero
    THEN [i \in 1..(max(tb) + 1) |-> <<i - 1, GetOr0(freq_count(tb), i - 1)>>]
    ELSE LET sorted == SortAsc(DOMAIN freq_count(tb))
         IN  [i \in 1..Len(sorted) |-> <<sorted[i], freq_count(tb)[sorted[i]]>>]

---------------------------------------------------------------------------
(* KmersAndHashesIter and consume. *)

\* KmersAndHashesIter::new computes end = seq.len() - ksize + 1 in usize.
\* For seq.len() < ksize the subtraction overflows: a build with overflow
\* checks aborts; a build without them wraps, so that end is 0 for
\* seq.len() = ksize - 1 and a huge value below that, where the first
\* next() aborts on slicing seq[0..ksize].  "end" is the number of positions
\* or -1 when construction or the first step aborts.
IterEnd(seqlen, ksize, overflow_checks) ==
    IF seqlen >= ksize THEN seqlen - ksize + 1
    ELSE IF overflow_checks THEN -1
    ELSE IF seqlen + 1 = ksize THEN 0
    ELSE -1

\* the substring read at offset start, the same as in seq, in place of the
\* mirrored offset
MirrorUnmirrored(seq_rc, ksize, end, start) ==
    SubSeq(seq_rc, start + 1, start + ksize)

\* `&self.seq_rc[rpos..rpos + ksize]` with rpos = self.end - start - 1
Mirror(seq_rc, ksize, end, start) ==
    LET rpos == end - start - 1
    IN  SubSeq(seq_rc, rpos + 1, rpos + ksize)

\* KmersAndHashesIter::next from position pos (0-based) on: the items the
\* iterator yields, each [ok, kmer, h]
RECURSIVE IterItems(_, _, _, _, _, _)
IterItems(seq, seq_rc, ksize, end, pos, skip_bad_kmers) ==
    IF pos >= end THEN << >>
    ELSE LET start     == pos
             substr    == SubSeq(seq, start + 1, start + ksize)
             substr_rc == Mirror(seq_rc, ksize, end, start)
             hashval   == SeqToHashesAt(seq, ksize, TRUE, pos + 1)
             rest      == IterItems(seq, seq_rc, ksize, end, pos + 1,
                                    skip_bad_kmers)
         IN  IF hashval.ok
             THEN IF hashval.h > 0
                  THEN <<[ok |-> TRUE,
                          kmer |-> IF StrLess(substr, substr_rc)
                                   THEN substr ELSE substr_rc,
                          h |-> hashval.h]>> \o rest
                  ELSE IF skip_bad_kmers THEN rest
                  ELSE <<[ok |-> TRUE, kmer |-> << >>, h |-> 0]>> \o rest
             ELSE <<[ok |-> FALSE, kmer |-> << >>, h |-> 0]>> \o rest

\* the items of KmersAndHashesIter::new(seq, ksize, skip_bad_kmers)
KmersAndHashesIter(seq, ksize, skip_bad_kmers, end) ==
    LET sequ == to_uppercase(seq)
    IN  IterItems(sequ, revcomp(sequ), ksize, end, 0, skip_bad_kmers)

\* the loop of consume over the iterator's items (store_kmers = true)
RECURSIVE ConsumeItems(_, _, _, _)
ConsumeItems(tb, items, i, n) ==
    IF i > Len(items) THEN Outcome(tb, "ok", n)
    ELSE IF ~items[i].ok THEN Outcome(tb, "err", n)
    ELSE IF items[i].h # 0
    THEN ConsumeItems(
             [tb EXCEPT !.hash_to_kmer = Put(@, items[i].h, items[i].kmer),
                        !.counts = Put(@, items[i].h,
                                       GetOr0(tb.counts, items[i].h) + 1)],
             items, i + 1, n + 1)
    ELSE ConsumeItems(tb, items, i + 1, n)

\* the loop below with `n += 1` reached for a zero hash as well
RECURSIVE ConsumeHashesTallyZero(_, _, _, _, _)
ConsumeHashesTallyZero(tb, seq, skip_bad_kmers, i, n) ==
    IF i > NumHashes(Len(seq), tb.ksize) THEN Outcome(tb, "ok", n)
    ELSE LET hash_value == SeqToHashesAt(seq, tb.ksize, skip_bad_kmers, i)
         IN  IF ~hash_value.ok THEN Outcome(tb, "err", n)
             ELSE IF hash_value.h = 0
             THEN ConsumeHashesTallyZero(tb, seq, skip_bad_kmers, i + 1, n + 1)
             ELSE ConsumeHashesTallyZero(count_hash(tb, hash_value.h).tb, seq,
                                         skip_bad_kmers, i + 1, n + 1)

\* the loop of consume over the encoder's results (store_kmers = false)
RECURSIVE ConsumeHashes(_, _, _, _, _)
ConsumeHashes(tb, seq, skip_bad_kmers, i, n) ==
    IF i > NumHashes(Len(seq), tb.ksize) THEN Outcome(tb, "ok", n)
    ELSE LET hash_value == SeqToHashesAt(seq, tb.ksize, skip_bad_kmers, i)
         IN  IF ~hash_value.ok THEN Outcome(tb, "err", n)
             ELSE IF hash_value.h = 0
             THEN ConsumeHashes(tb, seq, skip_bad_kmers, i + 1, n)
             ELSE ConsumeHashes(count_hash(tb, hash_value.h).tb, seq,
                                skip_bad_kmers, i + 1, n + 1)

\* consume that undoes its increments when the loop fails
consume_rollback(tb, seq, skip_bad_kmers, overflow_checks) ==
    LET end  == IterEnd(Len(seq), tb.ksize, overflow_checks)
        loop == IF tb.store_kmers
                THEN IF end < 0 THEN Outcome(tb, "panic", 0)
                     ELSE ConsumeItems(tb, KmersAndHashesIter(seq, tb.ksize,
                                           skip_bad_kmers, end), 1, 0)
                ELSE ConsumeHashes(tb, seq, skip_bad_kmers, 1, 0)
    IN  IF loop.status # "ok" THEN Outcome(tb, loop.status, 0)
        ELSE Outcome([loop.tb EXCEPT !.consumed = @ + Len(seq)], "ok", loop.val)

\* consume: consumed grows by seq.len() only when the loop ran to its end
consume(tb, seq, skip_bad_kmers, overflow_checks) ==
    LET end  == IterEnd(Len(seq), tb.ksize, overflow_checks)
        loop == IF tb.store_kmers
                THEN IF end < 0 THEN Outcome(tb, "panic", 0)
                     ELSE ConsumeItems(tb, KmersAndHashesIter(seq, tb.ksize,
                                           skip_bad_kmers, end), 1, 0)
                ELSE ConsumeHashes(tb, seq, skip_bad_kmers, 1, 0)
    IN  IF loop.status # "ok" THEN Outcome(loop.tb, loop.status, 0)
        ELSE Outcome([loop.tb EXCEPT !.consumed = @ + Len(seq)], "ok", loop.val)

\* kmers_and_hashes: the iterator's items, collected
kmers_and_hashes(tb, seq, skip_bad_kmers, overflow_checks) ==
    LET end == IterEnd(Len(seq), tb.ksize, overflow_checks)
    IN  IF end < 0 THEN [status |-> "panic", items |-> << >>]
        ELSE LET items == KmersAndHashesIter(seq, tb.ksize, skip_bad_kmers, end)
             IN  IF \E i \in 1..Len(items) : ~items[i].ok
                 THEN [status |-> "err", items |-> << >>]
                 ELSE [status |-> "ok",
                       items |-> [i \in 1..Len(items) |->
                                     <<items[i].kmer, items[i].h>>]]

---------------------------------------------------------------------------
(* The read-only two-table methods: none of them looks at ksize. *)

hash_set(tb) == DOMAIN tb.counts

union(tb, other) == hash_set(tb) \cup hash_set(other)

intersection(tb, other) == hash_set(tb) \cap hash_set(other)

difference(tb, other) == hash_set(tb) \ hash_set(other)

symmetric_difference(tb, other) ==
    (hash_set(tb) \ hash_set(other)) \cup (hash_set(other) \ hash_set(tb))

\* jaccard as the fraction <<numerator, denominator>>; <<1, 1>> for 1.0
jaccard(tb, other) ==
    IF Cardinality(union(tb, other)) = 0 THEN <<1, 1>>
    ELSE <<Cardinality(intersection(tb, other)), Cardinality(union(tb, other))>>

\* cosine as <<dot_product, sum of squares of self, sum of squares of
\* other>>, standing for dot / (sqrt(self) * sqrt(other)); <<0, 1, 1>> for
\* the early returns of 0.0
cosine(tb, other) ==
    LET both == hash_set(tb) \cap hash_set(other)
        dot_product == sum_counts([h \in both |-> tb.counts[h] * other.counts[h]])
        squares(m)  == sum_counts([h \in DOMAIN m |-> m[h] * m[h]])
    IN  IF hash_set(tb) = {} \/ hash_set(other) = {} THEN <<0, 1, 1>>
        ELSE IF squares(tb.counts) = 0 \/ squares(other.counts) = 0
        THEN <<0, 1, 1>>
        ELSE <<dot_product, squares(tb.counts), squares(other.counts)>>

---------------------------------------------------------------------------
(* Inputs. *)

SeqsUpTo(alphabet, n) == UNION {[1..m -> alphabet] : m \in 0..n}

\* a string of len characters "A"
Run(len) == [i \in 1..len |-> "A"]

\* k-mer strings handed to the k-mer methods: of length 1 and 2, with a
\* lower-case letter, with the non-DNA character N, and one that is U8Mod
\* characters longer than a ksize
KmerInputs ==
    {<<"A">>, <<"t", "T">>, <<"N">>, <<"A", "N">>, Run(1 + U8Mod)}

\* sequences handed to consume in Spec: shorter than a ksize, and with a
\* non-DNA character after windows that hash
ConsumeInputs == {<< >>, <<"A">>, <<"T", "T", "N">>}

\* sequences handed to kmers_and_hashes: every base and the non-DNA
\* character N
ExtractInputs == SeqsUpTo({"A", "C", "G", "T", "N"}, MaxSeqLen)

\* sequences handed to consume in SpecConsume: A and T (each other's
\* complement) and the non-DNA character N
SeqInputs == SeqsUpTo({"A", "T", "N"}, MaxSeqLen)

\* k-mer strings handed to count and to __setitem__ in SpecAdd
AddCountInputs == {<<"A">>, <<"A", "T">>, <<"T", "A">>, <<"A", "A">>}

AddSetInputs == {<<"C">>}

\* hash values handed to count_hash and drop_hash: the reserved value 0 and
\* the hash of "AA"
HashInputs == {0, HashMurmur(<<"A", "A">>)}

\* the k-mer string handed to count in SpecAll
AllCountInputs == {<<"A">>}

\* hash values handed to count_hash and drop_hash in SpecAll: the hash of "A"
AllHashInputs == {HashMurmur(<<"A">>)}

\* the threshold handed to mincut and maxcut in SpecAll
CutInputs == {MaxCount - 1}

\* counts handed to __setitem__, thresholds handed to mincut and maxcut
CountInputs == 0..MaxCount

---------------------------------------------------------------------------
(* The state. *)

Workers == 1..NWorkers

IdleWorker == [pc |-> "idle", hash |-> 0, count |-> 0]

IdleAdd == [pc |-> "idle", self |-> 0, other |-> 0, pending |-> {},
            pre |-> EmptyMap, total |-> 0, newkeys |-> 0,
            again |-> FALSE, pre0 |-> EmptyMap, prek |-> EmptyMap]

\* the record of a completed call
Ret(op, t, status, val) ==
    [op |-> op, t |-> t, o |-> 0, status |-> status, val |-> val, val2 |-> 0,
     arg |-> << >>, num |-> 0, flag |-> FALSE, set |-> {}, items |-> << >>,
     pre |-> EmptyMap, again |-> FALSE, pre0 |-> EmptyMap,
     prek |-> EmptyMap]

NoCall == Ret("new", 0, "ok", 0)

\* the part of the state space explored
Explored(t, tb) ==
    /\ \A h \in DOMAIN tb.counts : tb.counts[h] <= MaxCount
    /\ tb.consumed # tables[t].consumed => tables[t].consumed < MaxConsumed

\* a call on table t that ran to its end with outcome out
Finish(t, out, r) ==
    /\ addst.pc = "idle"
    /\ Explored(t, out.tb)
    /\ tables' = [tables EXCEPT ![t] = out.tb]
    /\ ret' = r
    /\ UNCHANGED <<addst, workers, mutex>>

\* no call is in flight and the caller holds no unread result
Ready == addst.pc = "idle" /\ ret = NoCall

\* the caller takes the result of the call that returned
Observe ==
    /\ addst.pc = "idle"
    /\ ret # NoCall
    /\ ret' = NoCall
    /\ UNCHANGED <<tables, addst, workers, mutex>>

TypeOK ==
    /\ \A t \in Tables :
          /\ tables[t].ksize \in KSizes
          /\ tables[t].store_kmers \in BOOLEAN
          /\ tables[t].consumed \in Nat
          /\ \A h \in DOMAIN tables[t].counts : tables[t].counts[h] \in Nat
    /\ ret.status \in {"ok", "err", "panic"}
    /\ mutex \in 0..NWorkers
    /\ addst.pc \in {"idle", "counts", "kmers"}

---------------------------------------------------------------------------
(* The single-table calls. *)

HashKmer(t, kmer) ==
    \E hk \in {hash_kmer(tables[t], kmer)} :
        Finish(t, Outcome(tables[t], hk.status, hk.h),
               [Ret("hash_kmer", t, hk.status, hk.h) EXCEPT !.arg = kmer])

CountHash(t, hashval) ==
    \E out \in {count_hash(tables[t], hashval)} :
        Finish(t, out, [Ret("count_hash", t, out.status, out.val)
                            EXCEPT !.num = hashval])

Count(t, kmer) ==
    \E out \in {count(tables[t], kmer)} :
        Finish(t, out, [Ret("count", t, out.status, out.val)
                            EXCEPT !.arg = kmer])

Get(t, kmer) ==
    \E out \in {get(tables[t], kmer)} :
        Finish(t, out, [Ret("get", t, out.status, out.val) EXCEPT !.arg = kmer])

Drop(t, kmer) ==
    \E out \in {drop(tables[t], kmer)} :
        Finish(t, out, [Ret("drop", t, out.status, out.val)
                            EXCEPT !.arg = kmer])

DropHash(t, hashval) ==
    \E out \in {drop_hash(tables[t], hashval)} :
        Finish(t, out, [Ret("drop_hash", t, out.status, out.val)
                            EXCEPT !.num = hashval])

Mincut(t, min_count) ==
    \E out \in {mincut(tables[t], min_count)} :
        Finish(t, out, [Ret("mincut", t, out.status, out.val)
                            EXCEPT !.num = min_count])

Maxcut(t, max_count) ==
    \E out \in {maxcut(tables[t], max_count)} :
        Finish(t, out, [Ret("maxcut", t, out.status, out.val)
                            EXCEPT !.num = max_count])

SetItem(t, kmer, cnt) ==
    \E out \in {setitem(tables[t], kmer, cnt)} :
        Finish(t, out, [Ret("setitem", t, out.status, out.val)
                            EXCEPT !.arg = kmer, !.num = cnt])

\* whether the build checks integer overflow: either, where consume reaches
\* the subtraction that can overflow; of no effect elsewhere
Builds(tb, seq) ==
    IF tb.store_kmers /\ Len(seq) < tb.ksize THEN BOOLEAN ELSE {FALSE}

Consume(t, seq, skip_bad_kmers, overflow_checks) ==
    \E out \in {consume(tables[t], seq, skip_bad_kmers, overflow_checks)} :
        Finish(t, out, [Ret("consume", t, out.status, out.val)
                            EXCEPT !.arg = seq, !.flag = skip_bad_kmers])

Histo(t, zero) ==
    /\ addst.pc = "idle"
    /\ ret' = [Ret("histo", t, "ok", Len(histo(tables[t], zero)))
                   EXCEPT !.flag = zero, !.items = histo(tables[t], zero)]
    /\ UNCHANGED <<tables, addst, workers, mutex>>

\* whether the build checks integer overflow, where kmers_and_hashes reaches
\* the subtraction that can overflow
BuildsIter(tb, seq) == IF Len(seq) < tb.ksize THEN BOOLEAN ELSE {FALSE}

KmersAndHashes(t, seq, skip_bad_kmers, overflow_checks) ==
    /\ addst.pc = "idle"
    /\ \E out \in {kmers_and_hashes(tables[t], seq, skip_bad_kmers,
                                      overflow_checks)} :
          ret' = [Ret("kmers_and_hashes", t, out.status, Len(out.items))
                      EXCEPT !.arg = seq, !.flag = skip_bad_kmers,
                             !.items = out.items]
    /\ UNCHANGED <<tables, addst, workers, mutex>>

---------------------------------------------------------------------------
(* The read-only two-table calls. *)

SetOp(op, t, o, result) ==
    /\ addst.pc = "idle"
    /\ ret' = [Ret(op, t, "ok", Cardinality(result)) EXCEPT !.o = o,
                                                           !.set = result]
    /\ UNCHANGED <<tables, addst, workers, mutex>>

Union(t, o) == SetOp("union", t, o, union(tables[t], tables[o]))

Intersection(t, o) ==
    SetOp("intersection", t, o, intersection(tables[t], tables[o]))

Difference(t, o) == SetOp("difference", t, o, difference(tables[t], tables[o]))

SymmetricDifference(t, o) ==
    SetOp("symmetric_difference", t, o,
          symmetric_difference(tables[t], tables[o]))

Jaccard(t, o) ==
    /\ addst.pc = "idle"
    /\ ret' = [Ret("jaccard", t, "ok", jaccard(tables[t], tables[o])[1])
                   EXCEPT !.o = o, !.val2 = jaccard(tables[t], tables[o])[2]]
    /\ UNCHANGED <<tables, addst, workers, mutex>>

Cosine(t, o) ==
    /\ addst.pc = "idle"
    /\ ret' = [Ret("cosine", t, "ok", cosine(tables[t], tables[o])[1])
                   EXCEPT !.o = o, !.val2 = cosine(tables[t], tables[o])[2],
                          !.num = cosine(tables[t], tables[o])[3]]
    /\ UNCHANGED <<tables, addst, workers, mutex>>

---------------------------------------------------------------------------
(* add(self, other).  The call is a sequence of steps: the ksize test; the  *)
(* first for_each, whose closure runs once per (hash, count) of `updates`   *)
(* on some worker of the pool, under counts_mutex; self.consumed +=         *)
(* other.consumed; the second for_each over other.hash_to_kmer under        *)
(* hash_to_kmer_mutex when both tables store k-mers; the return.  The two   *)
(* mutexes never exist at the same time, so one variable holds the owner.   *)
(* No other call runs on either table meanwhile (&mut self, &other).        *)

\* the update with `=` in place of `+=`
AddCountAssign(current_count, cnt) == cnt

\* `*current_count += count`
AddCount(current_count, cnt) == current_count + cnt

\* `insert(hash, kmer.clone())` in place of entry(hash).or_insert_with(..)
OrInsertAlways(m, hash, kmer) == Put(m, hash, kmer)

\* `entry(hash).or_insert_with(|| kmer.clone())`
OrInsertWith(m, hash, kmer) == IF hash \in DOMAIN m THEN m ELSE Put(m, hash, kmer)

\* the ksize test fails: Err, nothing changes
AddMismatch(t, o) ==
    /\ addst.pc = "idle"
    /\ t # o
    /\ tables[t].ksize # tables[o].ksize
    /\ ret' = [Ret("add", t, "err", 0) EXCEPT !.o = o, !.pre = tables[t].counts]
    /\ UNCHANGED <<tables, addst, workers, mutex>>

\* the ksize test passes: the atomics start at 0 and `updates` is collected.
\* The frame notes whether the call directly follows a successful add of the
\* same two tables (`again`), and then self's counts before that call.
AddCall(t, o) ==
    /\ addst.pc = "idle"
    /\ t # o
    /\ tables[t].ksize = tables[o].ksize
    /\ tables[t].consumed < MaxConsumed
    /\ \A h \in DOMAIN tables[o].counts :
          GetOr0(tables[t].counts, h) + tables[o].counts[h] <= MaxCount
    /\ LET again == ret.op = "add" /\ ret.status = "ok"
                        /\ ret.t = t /\ ret.o = o
       IN  addst' = [pc |-> "counts", self |-> t, other |-> o,
                     pending |-> DOMAIN tables[o].counts,
                     pre |-> tables[t].counts, total |-> 0, newkeys |-> 0,
                     again |-> again,
                     pre0 |-> IF again THEN ret.pre ELSE tables[t].counts,
                     prek |-> tables[t].hash_to_kmer]
    /\ ret' = NoCall
    /\ UNCHANGED <<tables, workers, mutex>>

\* add(self, other) called again right after it returned Ok
AddAgain ==
    /\ ret.op = "add"
    /\ ret.status = "ok"
    /\ AddCall(ret.t, ret.o)

\* an idle worker takes one of the items the for_each has not handed out
WorkerTake(w) ==
    /\ addst.pc \in {"counts", "kmers"}
    /\ workers[w].pc = "idle"
    /\ \E h \in addst.pending :
          /\ workers' = [workers EXCEPT ![w] =
                [pc |-> "lock", hash |-> h,
                 count |-> IF addst.pc = "counts"
                           THEN tables[addst.other].counts[h] ELSE 0]]
          /\ addst' = [addst EXCEPT !.pending = @ \ {h}]
    /\ UNCHANGED <<tables, ret, mutex>>

\* mutex.lock().unwrap(): blocks until the mutex is free
WorkerLock(w) ==
    /\ workers[w].pc = "lock"
    /\ mutex = 0
    /\ mutex' = w
    /\ workers' = [workers EXCEPT ![w].pc = "locked"]
    /\ UNCHANGED <<tables, ret, addst>>

\* counts_lock.entry(hash).or_insert(0); a count of 0 is a new key
WorkerEntry(w) ==
    /\ addst.pc = "counts"
    /\ workers[w].pc = "locked"
    /\ mutex = w
    /\ LET self == addst.self
           h    == workers[w].hash
           cur  == GetOr0(tables[self].counts, h)
       IN  /\ tables' = [tables EXCEPT ![self].counts = Put(@, h, cur)]
           /\ addst' = [addst EXCEPT !.newkeys =
                            IF cur = 0 THEN @ + 1 ELSE @]
    /\ workers' = [workers EXCEPT ![w].pc = "entry"]
    /\ UNCHANGED <<ret, mutex>>

\* *current_count += count; total_counts_added.fetch_add(count); the guard
\* is dropped at the end of the closure
WorkerIncr(w) ==
    /\ addst.pc = "counts"
    /\ workers[w].pc = "entry"
    /\ mutex = w
    /\ LET self == addst.self
           h    == workers[w].hash
       IN  tables' = [tables EXCEPT ![self].counts =
                         Put(@, h, AddCount(@[h], workers[w].count))]
    /\ addst' = [addst EXCEPT !.total = @ + workers[w].count]
    /\ workers' = [workers EXCEPT ![w] = IdleWorker]
    /\ mutex' = 0
    /\ UNCHANGED ret

\* the first for_each has returned: self.consumed += other.consumed, and the
\* second for_each starts when both tables store k-mers
AddJoin ==
    /\ addst.pc = "counts"
    /\ addst.pending = {}
    /\ \A w \in Workers : workers[w].pc = "idle"
    /\ tables' = [tables EXCEPT ![addst.self].consumed =
                      @ + tables[addst.other].consumed]
    /\ addst' = [addst EXCEPT
                   !.pc = "kmers",
                   !.pending =
                       IF tables[addst.self].store_kmers
                          /\ tables[addst.other].store_kmers
                       THEN DOMAIN tables[addst.other].hash_to_kmer
                       ELSE {}]
    /\ UNCHANGED <<ret, workers, mutex>>

\* hash_to_kmer_lock.entry(hash).or_insert_with(..); the guard is dropped
WorkerInsert(w) ==
    /\ addst.pc = "kmers"
    /\ workers[w].pc = "locked"
    /\ mutex = w
    /\ LET self == addst.self
           h    == workers[w].hash
       IN  tables' = [tables EXCEPT ![self].hash_to_kmer =
                OrInsertWith(@, h, tables[addst.other].hash_to_kmer[h])]
    /\ workers' = [workers EXCEPT ![w] = IdleWorker]
    /\ mutex' = 0
    /\ UNCHANGED <<ret, addst>>

\* Ok((total_added, new_keys))
AddReturn ==
    /\ addst.pc = "kmers"
    /\ addst.pending = {}
    /\ \A w \in Workers : workers[w].pc = "idle"
    /\ ret' = [Ret("add", addst.self, "ok", addst.total)
                   EXCEPT !.o = addst.other, !.val2 = addst.newkeys,
                          !.pre = addst.pre, !.again = addst.again,
                          !.pre0 = addst.pre0, !.prek = addst.prek]
    /\ addst' = IdleAdd
    /\ UNCHANGED <<tables, workers, mutex>>

---------------------------------------------------------------------------
(* Spec: every single-table call, in any order, on one table created empty *)
(* with either ksize and either store_kmers.                               *)

Init ==
    /\ \E k \in KSizes, s \in BOOLEAN :
          tables = [t \in Tables |-> IF t = 1 THEN new(k, s) ELSE new(k, FALSE)]
    /\ ret = NoCall
    /\ addst = IdleAdd
    /\ workers = [w \in Workers |-> IdleWorker]
    /\ mutex = 0

Next ==
    \/ Ready /\ \E kmer \in KmerInputs : HashKmer(1, kmer)
    \/ Ready /\ \E h \in HashInputs : CountHash(1, h)
    \/ Ready /\ \E kmer \in KmerInputs : Count(1, kmer)
    \/ Ready /\ \E kmer \in KmerInputs : Get(1, kmer)
    \/ Ready /\ \E kmer \in KmerInputs : Drop(1, kmer)
    \/ Ready /\ \E h \in HashInputs : DropHash(1, h)
    \/ Ready /\ \E c \in CountInputs : Mincut(1, c)
    \/ Ready /\ \E c \in CountInputs : Maxcut(1, c)
    \/ Ready /\ \E kmer \in KmerInputs, c \in CountInputs : SetItem(1, kmer, c)
    \/ Ready /\ \E seq \in ConsumeInputs, skip \in BOOLEAN :
          \E oc \in Builds(tables[1], seq) : Consume(1, seq, skip, oc)
    \/ Ready /\ \E zero \in BOOLEAN : Histo(1, zero)
    \/ Observe

Spec == Init /\ [][Next]_vars

---------------------------------------------------------------------------
(* SpecConsume: consume over every sequence of up to MaxSeqLen characters. *)

NextConsume ==
    \/ Ready /\ \E seq \in SeqInputs, skip \in BOOLEAN :
          \E oc \in Builds(tables[1], seq) : Consume(1, seq, skip, oc)
    \/ Observe

SpecConsume == Init /\ [][NextConsume]_vars

---------------------------------------------------------------------------
(* SpecExtract: kmers_and_hashes over every sequence of up to MaxSeqLen    *)
(* characters, and consume.                                                *)

NextExtract ==
    \/ Ready /\ \E seq \in ExtractInputs, skip \in BOOLEAN :
          \E oc \in BuildsIter(tables[1], seq) :
              KmersAndHashes(1, seq, skip, oc)
    \/ Ready /\ \E seq \in ConsumeInputs, skip \in BOOLEAN :
          \E oc \in Builds(tables[1], seq) : Consume(1, seq, skip, oc)
    \/ Observe

SpecExtract == Init /\ [][NextExtract]_vars

---------------------------------------------------------------------------
(* SpecAdd: two tables created empty, filled by __setitem__ and count, and *)
(* the two-table calls with table 1 as self and table 2 as other.          *)

InitAdd ==
    /\ \E k1 \in KSizes, s1 \in BOOLEAN, s2 \in BOOLEAN :
          \E k2 \in {k \in KSizes : k <= k1} :
              tables = [t \in Tables |->
                           IF t = 1 THEN new(k1, s1) ELSE new(k2, s2)]
    /\ ret = NoCall
    /\ addst = IdleAdd
    /\ workers = [w \in Workers |-> IdleWorker]
    /\ mutex = 0

NextAdd ==
    \/ Ready /\ \E t \in Tables, kmer \in AddSetInputs, c \in CountInputs :
          SetItem(t, kmer, c)
    \/ Ready /\ \E t \in Tables, kmer \in AddCountInputs : Count(t, kmer)
    \/ Ready /\ Union(1, 2)
    \/ Ready /\ Intersection(1, 2)
    \/ Ready /\ Difference(1, 2)
    \/ Ready /\ SymmetricDifference(1, 2)
    \/ Ready /\ Jaccard(1, 2)
    \/ Ready /\ Cosine(1, 2)
    \/ Ready /\ Cosine(1, 1)
    \/ Ready /\ AddMismatch(1, 2)
    \/ Ready /\ AddCall(1, 2)
    \/ AddAgain
    \/ \E w \in Workers : WorkerTake(w)
    \/ \E w \in Workers : WorkerLock(w)
    \/ \E w \in Workers : WorkerEntry(w)
    \/ \E w \in Workers : WorkerIncr(w)
    \/ AddJoin
    \/ \E w \in Workers : WorkerInsert(w)
    \/ AddReturn
    \/ Observe

SpecAdd == InitAdd /\ [][NextAdd]_vars

---------------------------------------------------------------------------
(* SpecAll: every call that changes a table: __setitem__ and count on      *)
(* either table, add with table 1 as self, and the others on table 1.      *)

NextAll ==
    \/ Ready /\ \E t \in Tables, kmer \in AddSetInputs, c \in CountInputs :
          SetItem(t, kmer, c)
    \/ Ready /\ \E t \in Tables, kmer \in AllCountInputs : Count(t, kmer)
    \/ Ready /\ AddCall(1, 2)
    \/ \E w \in Workers : WorkerTake(w)
    \/ \E w \in Workers : WorkerLock(w)
    \/ \E w \in Workers : WorkerEntry(w)
    \/ \E w \in Workers : WorkerIncr(w)
    \/ AddJoin
    \/ \E w \in Workers : WorkerInsert(w)
    \/ AddReturn
    \/ Observe
    \/ Ready /\ \E h \in AllHashInputs : CountHash(1, h)
    \/ Ready /\ \E kmer \in AddSetInputs : Drop(1, kmer)
    \/ Ready /\ \E h \in AllHashInputs : DropHash(1, h)
    \/ Ready /\ \E c \in CutInputs : Mincut(1, c)
    \/ Ready /\ \E c \in CutInputs : Maxcut(1, c)
    \/ Ready /\ \E seq \in ConsumeInputs :
          \E oc \in Builds(tables[1], seq) : Consume(1, seq, TRUE, oc)

SpecAll == InitAdd /\ [][NextAll]_vars

---------------------------------------------------------------------------
(* Properties. *)

\* the step is a call returning: before it the caller held no result
Returns(ops) == ret = NoCall /\ ret'.op \in ops

\* the hash of the i-th window of seq (0: the window is unusable)
WindowHash(seq, k, i) == SeqToHashesAt(seq, k, TRUE, i).h

\* the windows of seq among the first m whose hash is h
WindowsOf(seq, k, m, h) == {i \in 1..m : WindowHash(seq, k, i) = h}

\* after is before with, for every hash, the gain given by gain, for every hash, the number given by gain
GrowsBy(before, after, gained, gain(_)) ==
    /\ DOMAIN after = DOMAIN before \cup gained
    /\ \A h \in DOMAIN after : after[h] = GetOr0(before, h) + gain(h)

(* C1: when add(self, other) with equal ksize returns, whatever the order  *)
(* in which the workers ran, self.counts[h] is self's count of h before    *)
(* the call plus other's count of h (0 where absent) for every hash h, and *)
(* the returned total is the sum of all counts of other.                   *)
AddLosesNoUpdate ==
    (ret.op = "add" /\ ret.status = "ok") =>
        LET other == tables[ret.o].counts
            gain(h) == GetOr0(other, h)
        IN  /\ GrowsBy(ret.pre, tables[ret.t].counts, DOMAIN other, gain)
            /\ ret.val = sum_counts(other)

\* an add returned that ran two closures, one of them on a hash self counted
AddMergedTwoUpdates ==
    /\ ret.op = "add"
    /\ ret.status = "ok"
    /\ Cardinality(DOMAIN tables[ret.o].counts) >= 2
    /\ \E h \in DOMAIN tables[ret.o].counts \cap DOMAIN ret.pre :
          ret.pre[h] >= 1 /\ tables[ret.o].counts[h] >= 1

(* C2: the reserved hash 0 is never a key of counts. *)
ZeroHashNeverCounted == \A t \in Tables : 0 \notin DOMAIN tables[t].counts

(* C3: in a table with store_kmers, every key of counts is a key of        *)
(* hash_to_kmer.                                                           *)
CountedHashesHaveKmers ==
    \A t \in Tables :
        tables[t].store_kmers =>
            DOMAIN tables[t].counts \subseteq DOMAIN tables[t].hash_to_kmer

KmerStringOps == {"hash_kmer", "count", "get", "drop", "setitem"}

(* C4: a call that takes a k-mer string whose length differs from ksize    *)
(* fails with an error and leaves the table unchanged.                     *)
WrongLengthFails ==
    [][(Returns(KmerStringOps) /\ Len(ret'.arg) # tables[ret'.t].ksize)
          => (ret'.status = "err" /\ tables' = tables)]_vars

TwoTableOps ==
    {"union", "intersection", "difference", "symmetric_difference",
     "jaccard", "cosine", "add"}

(* C5: a two-table call on tables of different ksize fails with an error   *)
(* and leaves both tables unchanged.                                       *)
KsizeMismatchFails ==
    [][(Returns(TwoTableOps)
          /\ tables[ret'.t].ksize # tables[ret'.o].ksize)
          => (ret'.status = "err" /\ tables' = tables)]_vars

(* C6: when add(a, b) returns right after add(a, b) returned, every hash   *)
(* of b has gained b's count twice over a's counts before the first call,  *)
(* and the second call reports no after key.                                 *)
AddTwiceDoubles ==
    (ret.op = "add" /\ ret.status = "ok" /\ ret.again) =>
        /\ ret.val2 = 0
        /\ \A h \in DOMAIN tables[ret.o].counts :
              /\ h \in DOMAIN tables[ret.t].counts
              /\ tables[ret.t].counts[h] =
                     GetOr0(ret.pre0, h) + 2 * tables[ret.o].counts[h]

(* C7: every entry of counts holds a count of at least 1. *)
NoZeroCount ==
    \A t \in Tables : \A h \in DOMAIN tables[t].counts :
        tables[t].counts[h] >= 1

(* C8: mincut(t) removes exactly the entries with count < t, maxcut(t)     *)
(* exactly those with count > t; the others keep their counts, the value   *)
(* returned is the number removed, and the same cut applied again to the   *)
(* table as left removes nothing and returns 0.                            *)
CutsRemoveExactly ==
    [][Returns({"mincut", "maxcut"}) =>
          LET before == tables[ret'.t].counts
              after == tables'[ret'.t].counts
              removed ==
                  {h \in DOMAIN before :
                      IF ret'.op = "mincut" THEN before[h] < ret'.num
                                            ELSE before[h] > ret'.num}
              again == IF ret'.op = "mincut"
                       THEN mincut(tables'[ret'.t], ret'.num)
                       ELSE maxcut(tables'[ret'.t], ret'.num)
          IN  /\ ret'.status = "ok"
              /\ DOMAIN after = DOMAIN before \ removed
              /\ \A h \in DOMAIN after : after[h] = before[h]
              /\ ret'.val = Cardinality(removed)
              /\ again.val = 0
              /\ again.tb = tables'[ret'.t]]_vars

\* a mincut returned that removed an entry and kept one at the threshold
MincutRemovedAndKept ==
    /\ ret.op = "mincut"
    /\ ret.val >= 1
    /\ \E h \in DOMAIN tables[ret.t].counts :
          tables[ret.t].counts[h] = ret.num

(* C9: a consume that returns Ok, on either path, returns the number n of  *)
(* windows whose hash is not 0, raises counts[h] by the number of windows  *)
(* hashing to h for every hash h (the sum of counts by n), and adds        *)
(* len(seq) to consumed once.                                              *)
ConsumeCountsWindows ==
    [][(Returns({"consume"}) /\ ret'.status = "ok") =>
          LET before == tables[ret'.t]
              after == tables'[ret'.t]
              seq == ret'.arg
              m   == NumHashes(Len(seq), before.ksize)
              hashed == {i \in 1..m : WindowHash(seq, before.ksize, i) # 0}
              gain(h) == Cardinality(WindowsOf(seq, before.ksize, m, h))
          IN  /\ ret'.val = Cardinality(hashed)
              /\ GrowsBy(before.counts, after.counts,
                         {WindowHash(seq, before.ksize, i) : i \in hashed}, gain)
              /\ sum_counts(after.counts) = sum_counts(before.counts) + ret'.val
              /\ after.consumed = before.consumed + Len(seq)]_vars

\* a consume on a table with store_kmers returned Ok over a sequence with
\* two windows that hash and one that does not
ConsumeSkippedAWindow ==
    /\ ret.op = "consume"
    /\ ret.status = "ok"
    /\ tables[ret.t].store_kmers
    /\ ret.val >= 2
    /\ NumHashes(Len(ret.arg), tables[ret.t].ksize) > ret.val

\* the first window of seq that is unusable (0: none)
FirstBad(seq, k) ==
    LET bad == {i \in 1..NumHashes(Len(seq), k) : WindowHash(seq, k, i) = 0}
    IN  IF bad = {} THEN 0
        ELSE CHOOSE i \in bad : \A j \in bad : i <= j

(* C10: when consume(seq, skip_bad_kmers = false) on a table without       *)
(* store_kmers fails on a window the encoder rejects, counts holds the     *)
(* increments of every window before that one and of no later window, and  *)
(* consumed is as before the call.                                         *)
ConsumeFailureKeepsIncrements ==
    [][(Returns({"consume"}) /\ ret'.status = "err" /\ ~ret'.flag
          /\ ~tables[ret'.t].store_kmers) =>
          LET before == tables[ret'.t]
              after == tables'[ret'.t]
              seq == ret'.arg
              b   == FirstBad(seq, before.ksize)
              gain(h) == Cardinality(WindowsOf(seq, before.ksize, b - 1, h))
          IN  /\ b >= 1
              /\ GrowsBy(before.counts, after.counts,
                         {WindowHash(seq, before.ksize, i) : i \in 1..(b - 1)},
                         gain)
              /\ after.consumed = before.consumed
              /\ after.hash_to_kmer = before.hash_to_kmer]_vars

\* a consume failed on a window that followed a counted one
ConsumeFailedAfterCounting ==
    /\ ret.op = "consume"
    /\ ret.status = "err"
    /\ ~ret.flag
    /\ ~tables[ret.t].store_kmers
    /\ FirstBad(ret.arg, tables[ret.t].ksize) >= 2

(* C11: for a sequence shorter than ksize, consume (with or without        *)
(* store_kmers) returns Ok(0), leaves counts unchanged and adds len(seq)   *)
(* to consumed, and kmers_and_hashes returns Ok of an empty list; neither  *)
(* aborts.                                                                 *)
ShortSequenceYieldsNothing ==
    [][(Returns({"consume", "kmers_and_hashes"})
          /\ Len(ret'.arg) < tables[ret'.t].ksize) =>
          /\ ret'.status = "ok"
          /\ ret'.val = 0
          /\ ret'.items = << >>
          /\ tables'[ret'.t].counts = tables[ret'.t].counts
          /\ tables'[ret'.t].consumed =
                 tables[ret'.t].consumed
                     + (IF ret'.op = "consume" THEN Len(ret'.arg) ELSE 0)]_vars

(* C12: get(kmer) with a string of exactly ksize characters, one of them   *)
(* outside A, C, G, T, returns an error to its caller; it does not abort.  *)
GetRejectedIsError ==
    (/\ ret.op = "get"
     /\ Len(ret.arg) = tables[ret.t].ksize
     /\ \E i \in 1..Len(ret.arg) : UpperChar(ret.arg[i]) \notin DnaValid)
        => ret.status = "err"

\* consumed of table t is the same after the step
SameConsumed(t) == tables'[t].consumed = tables[t].consumed

(* C13: consumed of a table never decreases: a count that returns Ok adds  *)
(* len(kmer), a consume that returns Ok adds len(seq), add adds            *)
(* other.consumed to self (once, and nothing to other), and drop,          *)
(* drop_hash, mincut, maxcut, count_hash and __setitem__ leave it as it    *)
(* is.                                                                     *)
ConsumedNeverDecreases ==
    [][/\ \A t \in Tables : tables'[t].consumed >= tables[t].consumed
       /\ (Returns({"count", "consume"}) /\ ret'.status = "ok") =>
              tables'[ret'.t].consumed =
                  tables[ret'.t].consumed + Len(ret'.arg)
       /\ Returns({"drop", "drop_hash", "mincut", "maxcut", "count_hash",
                   "setitem"}) => SameConsumed(ret'.t)
       /\ (addst.pc = "counts" /\ addst'.pc = "kmers") =>
              /\ tables'[addst.self].consumed =
                     tables[addst.self].consumed + tables[addst.other].consumed
              /\ SameConsumed(addst.other)
       /\ ((addst.pc # "idle" \/ addst'.pc # "idle")
              /\ ~(addst.pc = "counts" /\ addst'.pc = "kmers")) =>
              \A t \in Tables : SameConsumed(t)]_vars

\* an add returned on a table that had consumed characters, from a table
\* that had consumed characters
ConsumedGrewByAdd ==
    /\ ret.op = "add"
    /\ ret.status = "ok"
    /\ tables[ret.o].consumed >= 1
    /\ tables[ret.t].consumed > tables[ret.o].consumed

(* C14: cosine(a, a) is 1.0 for a table a with at least one entry: the     *)
(* zero branch is not taken, and the squared dot product equals the        *)
(* product of the two sums of squares.                                     *)
CosineSelfIsOne ==
    (ret.op = "cosine" /\ ret.t = ret.o
        /\ DOMAIN tables[ret.t].counts # {}) =>
        /\ ret.val > 0
        /\ ret.val * ret.val = ret.val2 * ret.num

\* the sum of the tallies of a list of (frequency, tally) pairs
RECURSIVE SumTallies(_)
SumTallies(pairs) ==
    IF pairs = << >> THEN 0 ELSE Head(pairs)[2] + SumTallies(Tail(pairs))

\* the number of hashes of table tb whose count is exactly c
Tally(tb, c) == Cardinality({h \in DOMAIN tb.counts : tb.counts[h] = c})

(* C15: histo(zero = true) returns one pair (c, tally) for every c of      *)
(* 0..max() in ascending order, tally being the number of hashes whose     *)
(* count is c, so [(0, 0)] for an empty table; histo(zero = false) returns *)
(* the observed counts only, ascending, with the same tallies; in both     *)
(* modes the tallies sum to the number of entries of counts.               *)
HistoTallies ==
    ret.op = "histo" =>
        LET tb       == tables[ret.t]
            pairs    == ret.items
            observed == {tb.counts[h] : h \in DOMAIN tb.counts}
        IN  /\ \A i \in 1..Len(pairs) : pairs[i][2] = Tally(tb, pairs[i][1])
            /\ \A i, j \in 1..Len(pairs) : i < j => pairs[i][1] < pairs[j][1]
            /\ {pairs[i][1] : i \in 1..Len(pairs)} =
                   IF ret.flag THEN 0..max(tb) ELSE observed
            /\ SumTallies(pairs) = Cardinality(DOMAIN tb.counts)
            /\ (ret.flag /\ DOMAIN tb.counts = {}) => pairs = << <<0, 0>> >>

\* a histo(zero = true) returned a gap at frequency 1 below a frequency
\* held by two hashes
HistoFilledAGap ==
    /\ ret.op = "histo"
    /\ ret.flag
    /\ Len(ret.items) >= 3
    /\ ret.items[2][2] = 0
    /\ ret.items[3][2] >= 2

(* C16: when add(self, other) returns and both tables store k-mers,        *)
(* self.hash_to_kmer holds every mapping it held before the call, as it    *)
(* was, and other's mapping for exactly the hashes it lacked, in whatever  *)
(* order the workers ran; when only self stores k-mers, add returns Ok,    *)
(* has added other's counts, and self.hash_to_kmer is as before the call.  *)
AddKeepsKmers ==
    (ret.op = "add" /\ ret.status = "ok" /\ tables[ret.t].store_kmers) =>
        LET self  == tables[ret.t]
            other == tables[ret.o]
            gain(h) == GetOr0(other.counts, h)
        IN  IF other.store_kmers
            THEN /\ DOMAIN self.hash_to_kmer =
                        DOMAIN ret.prek \cup DOMAIN other.hash_to_kmer
                 /\ \A h \in DOMAIN self.hash_to_kmer :
                        self.hash_to_kmer[h] =
                            IF h \in DOMAIN ret.prek THEN ret.prek[h]
                            ELSE other.hash_to_kmer[h]
            ELSE /\ self.hash_to_kmer = ret.prek
                 /\ GrowsBy(ret.pre, self.counts, DOMAIN other.counts, gain)

\* an add between two tables that store k-mers returned: self held another
\* k-mer than other for one hash, and lacked a hash that other held
AddKeptAndInsertedKmers ==
    /\ ret.op = "add"
    /\ ret.status = "ok"
    /\ tables[ret.t].store_kmers
    /\ tables[ret.o].store_kmers
    /\ \E h \in DOMAIN ret.prek \cap DOMAIN tables[ret.o].hash_to_kmer :
          ret.prek[h] # tables[ret.o].hash_to_kmer[h]
    /\ DOMAIN tables[ret.o].hash_to_kmer \ DOMAIN ret.prek # {}

(* C17: on a table that stores k-mers, a count or consume never replaces   *)
(* the k-mer held for a hash by a different string.                        *)
FirstSeenKmerStays ==
    [][Returns({"count", "consume"}) =>
          \A h \in DOMAIN tables[ret'.t].hash_to_kmer :
              /\ h \in DOMAIN tables'[ret'.t].hash_to_kmer
              /\ tables'[ret'.t].hash_to_kmer[h] =
                     tables[ret'.t].hash_to_kmer[h]]_vars

(* C18: for a sequence over A, C, G, T of at least ksize characters,       *)
(* kmers_and_hashes emits one item per window position p, in increasing    *)
(* p, each with the hash of that window; the substring read from the       *)
(* reverse complement of the whole sequence at offset end - p - 1 is the   *)
(* reverse complement of seq[p..p+ksize]; and the k-mer emitted is what    *)
(* canon returns for seq[p..p+ksize].                                      *)
ExtractorEmitsCanon ==
    (/\ ret.op = "kmers_and_hashes"
     /\ Len(ret.arg) >= tables[ret.t].ksize
     /\ \A i \in 1..Len(ret.arg) : ret.arg[i] \in DnaValid) =>
        LET tb  == tables[ret.t]
            seq == ret.arg
            end == Len(seq) - tb.ksize + 1
            fwd(p) == SubSeq(seq, p + 1, p + tb.ksize)
        IN  /\ ret.status = "ok"
            /\ Len(ret.items) = end
            /\ \A p \in 0..(end - 1) :
                  /\ Mirror(revcomp(seq), tb.ksize, end, p) = revcomp(fwd(p))
                  /\ canon(tb, fwd(p)).status = "ok"
                  /\ ret.items[p + 1][1] = canon(tb, fwd(p)).kmer
                  /\ ret.items[p + 1][2] = WindowHash(seq, tb.ksize, p + 1)

\* kmers_and_hashes returned, over a sequence of valid bases, one item that
\* is the window as read and one that is the reverse complement of its
\* window
ExtractorChoseBothStrands ==
    /\ ret.op = "kmers_and_hashes"
    /\ ret.status = "ok"
    /\ \A i \in 1..Len(ret.arg) : ret.arg[i] \in DnaValid
    /\ Len(ret.items) = Len(ret.arg) - tables[ret.t].ksize + 1
    /\ \E p, q \in 1..Len(ret.items) :
          /\ ret.items[p][1] = SubSeq(ret.arg, p, p + tables[ret.t].ksize - 1)
          /\ ret.items[p][1] # revcomp(ret.items[p][1])
          /\ ret.items[q][1] # SubSeq(ret.arg, q, q + tables[ret.t].ksize - 1)

====
